---- MODULE Spec2Model ----
(***************************************************************************)
(* hledger_clear (src/main.rs): reconcile a ledger against a CSV statement. *)
(* Text is modelled as a sequence of one-character strings, so that the     *)
(* string operations of process_files (lines, windows, join, starts_with,   *)
(* trim, to_lowercase, replace, contains, format!) are computed character   *)
(* by character.                                                            *)
(***************************************************************************)
EXTENDS Integers, Sequences, FiniteSets, TLC

\* ---------------------------------------------------------------- bounds
MaxLedgerLen == 4
MaxRows == 2

\* ------------------------------------------------------- string operators
IsWhitespace(c) == c \in {" ", "\t", "\n", "\r"}

\* char::to_lowercase on the letters the inputs use
ToLowerChar(c) ==
    CASE c = "G" -> "g"
      [] c = "R" -> "r"
      [] OTHER -> c

\* str::to_lowercase
to_lowercase(s) == [i \in 1..Len(s) |-> ToLowerChar(s[i])]

\* str::replace(ch, "")
remove_char(s, ch) == SelectSeq(s, LAMBDA c : c # ch)

\* str::starts_with
starts_with(s, p) == Len(s) >= Len(p) /\ SubSeq(s, 1, Len(p)) = p

\* str::contains
contains(s, sub) ==
    \E i \in 0..(Len(s) - Len(sub)) : SubSeq(s, i + 1, i + Len(sub)) = sub

RECURSIVE trim_start(_)
trim_start(s) ==
    IF s # <<>> /\ IsWhitespace(Head(s)) THEN trim_start(Tail(s)) ELSE s

RECURSIVE trim_end(_)
trim_end(s) ==
    IF s # <<>> /\ IsWhitespace(s[Len(s)])
    THEN trim_end(SubSeq(s, 1, Len(s) - 1))
    ELSE s

\* str::trim
trim(s) == trim_end(trim_start(s))

\* [String]::join(sep)
RECURSIVE join(_, _)
join(v, sep) ==
    IF v = <<>> THEN <<>>
    ELSE IF Len(v) = 1 THEN v[1]
    ELSE v[1] \o sep \o join(Tail(v), sep)

NL == <<"\n">>

\* str::lines: split at "\n", drop one trailing "\r" of each line, and no
\* final empty line after a trailing "\n"
StripCR(l) ==
    IF l # <<>> /\ l[Len(l)] = "\r" THEN SubSeq(l, 1, Len(l) - 1) ELSE l

lines(content) ==
    LET n == Len(content)
        breaks == {i \in 1..n : content[i] = "\n"}
        \* the position of the k-th "\n"
        Break(k) ==
            CHOOSE i \in breaks : Cardinality({j \in breaks : j < i}) = k - 1
        count == Cardinality(breaks)
                 + (IF n > 0 /\ content[n] # "\n" THEN 1 ELSE 0)
        First(k) == IF k = 1 THEN 1 ELSE Break(k - 1) + 1
        Last(k) == IF k <= Cardinality(breaks) THEN Break(k) - 1 ELSE n
    IN  [k \in 1..count |-> StripCR(SubSeq(content, First(k), Last(k)))]

\* slice::windows(n)
windows(v, n) ==
    IF Len(v) < n THEN <<>>
    ELSE [i \in 1..(Len(v) - n + 1) |-> SubSeq(v, i, i + n - 1)]

Spaces(n) == [i \in 1..n |-> " "]


\* ------------------------------------------------------------- the inputs
Blank == <<>>
Header == <<"1", " ", "G">>
Posting == <<" ", "$", "5">>
Full == <<"1", " ", "G", " ", "$", "5">>
Cleared == <<"*", " ", "1", " ", "G">>

\* the lines a ledger file is made of: a transaction's header, a posting, a
\* line with the date, the description and the amount, and a cleared header
LedgerLineSet == {Header, Posting, Full, Cleared}

RowMatch == << <<"1">>, <<"G">>, <<"$", "5">> >>
RowOther == << <<"2">>, <<" ", "R">>, <<"$", "7", " ">> >>
RowShort == << <<"1">>, <<"G">> >>

\* the data rows of a CSV file, and its header rows
RowSet == {RowMatch, RowOther, RowShort}
HeaderSet == { << <<"D">>, <<"N">>, <<"A">> >>, << <<"D">>, <<"N">> >> }

SeqUpTo(S, n) == UNION {[1..k -> S] : k \in 0..n}

\* a ledger file: its text, the lines joined by "\n", with or without a
\* final "\n"
LedgerFiles ==
    {join(ls, NL) : ls \in SeqUpTo(LedgerLineSet, MaxLedgerLen)} \cup
    {join(ls, NL) \o NL : ls \in SeqUpTo(LedgerLineSet, MaxLedgerLen)}

\* a CSV file: the rows the csv reader splits it into, header row first
CsvFiles == {<<>>} \cup
    {<<h>> \o rs : h \in HeaderSet, rs \in SeqUpTo(RowSet, MaxRows)}

\* ----------------------------------------------------------------- state
VARIABLES
    pc,              \* "main", "read_ledger", "read_csv", "loop", "exited"
    ledger_lines,    \* the ledger buffer
    uncleared_lines, \* the joined three-line blocks kept at load time
    csv_records,     \* the parsed CSV records
    row,             \* number of records the loop has consumed
    output,          \* content of the output file
    writes,          \* number of completed writes of the output file
    result,          \* "none", "Ok", "Err", "panic": how process_files ended
    exit_code,       \* -1 while running, then the process exit code
    loaded_lines,    \* history: the buffer as loaded
    last,            \* history: the last prompt shown and its result
    prompts,         \* history: number of prompts shown
    answered,        \* history: some prompt was answered, not failed
    added            \* history: the records "Add" was chosen for, in order

vars == <<pc, ledger_lines, uncleared_lines, csv_records, row, output, writes,
          result, exit_code, loaded_lines, last, prompts, answered, added>>

\* the history variables
hist == <<last, prompts, answered, added>>

Init ==
    /\ pc = "main"
    /\ ledger_lines = <<>>
    /\ uncleared_lines = <<>>
    /\ csv_records = <<>>
    /\ row = 0
    /\ output = <<>>
    /\ writes = 0
    /\ result = "none"
    /\ exit_code = -1
    /\ loaded_lines = <<>>
    /\ last = [prompt |-> "none", res |-> "none", pick |-> 0]
    /\ prompts = 0
    /\ answered = FALSE
    /\ added = <<>>

\* ------------------------------------------------------------ the loader
Star == <<"*">>

\* the starts (0-based line numbers) of the three-line blocks that pass the
\* filter of uncleared_lines, in order
BlockStarts(ll) ==
    SelectSeq([i \in 1..Len(windows(ll, 3)) |-> i - 1],
              LAMBDA i : ~starts_with(ll[i + 1], Star))

\* ledger_lines.windows(3).filter(!block[0].starts_with("*")).map(join)
Uncleared(ll) ==
    LET kept == SelectSeq(windows(ll, 3),
                          LAMBDA block : ~starts_with(block[1], Star))
    IN  [i \in 1..Len(kept) |-> join(kept[i], NL)]

\* csv reader with has_headers(true): the first row is the header and fixes
\* the field count; a row of another length is an error, which filter_map
\* drops
ParseCsv(file) ==
    IF file = <<>> THEN <<>>
    ELSE SelectSeq(Tail(file), LAMBDA r : Len(r) = Len(file[1]))

\* main: the ledger path is --ledger, else LEDGER_FILE, else exit(1)
Main ==
    /\ pc = "main"
    /\ \E ledger \in {"flag", "env", "none"} :
          IF ledger = "none"
          THEN /\ pc' = "exited"
               /\ exit_code' = 1
          ELSE /\ pc' = "read_ledger"
               /\ exit_code' = exit_code
    /\ UNCHANGED <<ledger_lines, uncleared_lines, csv_records, row, output,
                   writes, result, loaded_lines, hist>>

\* process_files returns and main turns the result into the exit code
Return(r) ==
    /\ pc' = "exited"
    /\ result' = r
    /\ exit_code' = IF r = "Ok" THEN 0 ELSE IF r = "Err" THEN 1 ELSE 101

ReadLedgerOk ==
    /\ pc = "read_ledger"
    /\ \E ledger_content \in LedgerFiles :
          /\ ledger_lines' = lines(ledger_content)
          /\ uncleared_lines' = Uncleared(lines(ledger_content))
          /\ loaded_lines' = lines(ledger_content)
    /\ pc' = "read_csv"
    /\ UNCHANGED <<csv_records, row, output, writes, result, exit_code,
                   hist>>

ReadLedgerErr ==
    /\ pc = "read_ledger"
    /\ Return("Err")
    /\ UNCHANGED <<ledger_lines, uncleared_lines, csv_records, row, output,
                   writes, loaded_lines, hist>>

ReadCsvOk ==
    /\ pc = "read_csv"
    /\ \E file \in CsvFiles : csv_records' = ParseCsv(file)
    /\ pc' = "loop"
    /\ UNCHANGED <<ledger_lines, uncleared_lines, row, output, writes, result,
                   exit_code, loaded_lines,
                   hist>>

ReadCsvErr ==
    /\ pc = "read_csv"
    /\ Return("Err")
    /\ UNCHANGED <<ledger_lines, uncleared_lines, csv_records, row, output,
                   writes, loaded_lines, hist>>

\* ----------------------------------------------------------- the matcher
\* the three fields of a record as the loop normalizes them
date(record) == trim(record[1])
description(record) == to_lowercase(trim(record[2]))
amount(record) == remove_char(trim(record[3]), "$")

\* IsMatch without the test of the amount
IsMatch_TwoFields(combined, record) ==
    LET normalized == remove_char(to_lowercase(combined), "$")
    IN  /\ contains(normalized, date(record))
        /\ contains(normalized, description(record))

\* the filter of matches: the block, lower-cased and without "$", contains
\* the three fields
IsMatch(combined, record) ==
    LET normalized == remove_char(to_lowercase(combined), "$")
    IN  /\ contains(normalized, date(record))
        /\ contains(normalized, description(record))
        /\ contains(normalized, amount(record))

\* matches whose index is the number of the line after the block
Matches_PastBlock(ul, record) ==
    LET hit == SelectSeq([i \in 1..Len(ul) |-> i],
                         LAMBDA i : IsMatch(ul[i], record))
    IN  [k \in 1..Len(hit) |-> <<hit[k] + 2, ul[hit[k]]>>]

\* matches: the pairs <<index, combined>>, index being the 0-based position
\* in uncleared_lines
Matches(ul, record) ==
    LET hit == SelectSeq([i \in 1..Len(ul) |-> i],
                         LAMBDA i : IsMatch(ul[i], record))
    IN  [k \in 1..Len(hit) |-> <<hit[k] - 1, ul[hit[k]]>>]

\* ---------------------------------------------------------- the resolver
IgnoreThisLine ==
    <<"I","g","n","o","r","e"," ","t","h","i","s"," ","l","i","n","e">>

\* the options of the match prompt
Options(matches) ==
    Append([k \in 1..Len(matches) |-> matches[k][2]], IgnoreThisLine)

\* a failed no-match prompt taken as "Exit"
NoMatchDefault_Exit == "Exit"

\* the defaults of unwrap_or_else when the prompt fails
NoMatchDefault == "Ignore"
MatchDefault == IgnoreThisLine

\* format!("* {}", line.trim_start())
MarkCleared(line) == <<"*", " ">> \o trim_start(line)

\* the entry "Add Stock Expense Item" appends: one string of three lines
NewEntry(record) ==
    date(record) \o <<" ">> \o description(record) \o NL
    \o Spaces(4)
    \o <<"E","x","p","e","n","s","e","s",":",
         "M","i","s","c","e","l","l","a","n","e","o","u","s">>
    \o Spaces(10) \o <<"$">> \o amount(record) \o NL
    \o Spaces(4) \o <<"A","s","s","e","t","s",":","B","a","n","k">>
    \o Spaces(20) \o <<"-", "$">> \o amount(record)

\* matches.iter().find(|(_, block)| block == selected): the first position
\* whose text is the selected one, 0 if none
Find(matches, selected) ==
    LET same == {k \in 1..Len(matches) : matches[k][2] = selected}
    IN  IF same = {} THEN 0 ELSE CHOOSE k \in same : \A j \in same : k <= j

\* fs::write of the blocks kept at load time instead of the buffer
WriteOutput_Blocks(ok) ==
    IF ok THEN /\ output' = join(uncleared_lines, NL)
               /\ writes' = writes + 1
          ELSE UNCHANGED <<output, writes>>

\* fs::write(output_path, ledger_lines.join("\n"))
WriteOutput(ok) ==
    IF ok THEN /\ output' = join(ledger_lines, NL)
               /\ writes' = writes + 1
          ELSE UNCHANGED <<output, writes>>

\* a prompt's outcome: the prompt shown, what it returned ("Err" when it could
\* not be read) and, for the match prompt, the position of the option picked
Answer(prompt, res, pick) == [prompt |-> prompt, res |-> res, pick |-> pick]

\* the prompt returns: record it
Prompted(prompt, res, pick) ==
    /\ last' = Answer(prompt, res, pick)
    /\ prompts' = prompts + 1
    /\ answered' = (answered \/ res # "Err")

InLoop == pc = "loop" /\ row < Len(csv_records)
Record == csv_records[row + 1]

\* record[2] of a record with fewer than three fields: the index panics
RecordPanic ==
    /\ InLoop
    /\ Len(Record) < 3
    /\ Return("panic")
    /\ UNCHANGED <<ledger_lines, uncleared_lines, csv_records, row, output,
                   writes, loaded_lines, hist>>

\* "Add Stock Expense Item" pushing the three lines of the entry one by one
AddStockExpenseItem_Lines ==
    /\ ledger_lines' = ledger_lines \o lines(NewEntry(Record))
    /\ added' = Append(added, row + 1)
    /\ row' = row + 1
    /\ UNCHANGED <<pc, output, writes, result, exit_code>>

\* "Add Stock Expense Item" that assigns the new entry to the buffer
AddStockExpenseItem_Assign ==
    /\ ledger_lines' = <<NewEntry(Record)>>
    /\ added' = Append(added, row + 1)
    /\ row' = row + 1
    /\ UNCHANGED <<pc, output, writes, result, exit_code>>

\* "Add Stock Expense Item": push the new entry and go on
AddStockExpenseItem ==
    /\ ledger_lines' = Append(ledger_lines, NewEntry(Record))
    /\ added' = Append(added, row + 1)
    /\ row' = row + 1
    /\ UNCHANGED <<pc, output, writes, result, exit_code>>

\* "Exit" that writes the buffer and goes on with the next record
ExitProgram_NoReturn(write_ok) ==
    /\ WriteOutput(write_ok)
    /\ row' = row + 1
    /\ UNCHANGED <<pc, ledger_lines, result, exit_code, added>>

\* "Exit": write the buffer and return; write_ok: whether fs::write succeeds
ExitProgram(write_ok) ==
    /\ WriteOutput(write_ok)
    /\ Return(IF write_ok THEN "Ok" ELSE "Err")
    /\ UNCHANGED <<ledger_lines, row, added>>

\* "Ignore" and "Ignore this line": go on with the next record
Ignored ==
    /\ row' = row + 1
    /\ UNCHANGED <<pc, ledger_lines, output, writes, result, exit_code, added>>

\* marking the three lines of the block at start_line
MarkSelected_Block(start_line) ==
    IF start_line + 2 < Len(ledger_lines)
    THEN /\ ledger_lines' =
              [i \in 1..Len(ledger_lines) |->
                  IF i \in (start_line + 1)..(start_line + 3)
                  THEN MarkCleared(ledger_lines[i]) ELSE ledger_lines[i]]
         /\ row' = row + 1
         /\ UNCHANGED <<pc, output, writes, result, exit_code, added>>
    ELSE /\ Return("panic")
         /\ UNCHANGED <<ledger_lines, row, output, writes, added>>

\* ledger_lines[start_line] = "* " + its text; the index panics when it is
\* out of bounds
MarkSelected(start_line) ==
    IF start_line < Len(ledger_lines)
    THEN /\ ledger_lines' =
              [ledger_lines EXCEPT ![start_line + 1] = MarkCleared(@)]
         /\ row' = row + 1
         /\ UNCHANGED <<pc, output, writes, result, exit_code, added>>
    ELSE /\ Return("panic")
         /\ UNCHANGED <<ledger_lines, row, output, writes, added>>

\* the no-match prompt with its options; res is what it returned, "Err" when
\* it could not be read
NoMatch(res, write_ok) ==
    /\ Prompted("nomatch", res, 0)
    /\ LET action == IF res = "Err" THEN NoMatchDefault ELSE res
       IN  IF action = "Add Stock Expense Item" THEN AddStockExpenseItem
           ELSE IF action = "Exit" THEN ExitProgram(write_ok)
           ELSE Ignored
    /\ UNCHANGED <<uncleared_lines, csv_records, loaded_lines>>

\* the match prompt; res is the position of the option the user picked, 0
\* when the prompt could not be read
Match(matches, res) ==
    /\ Prompted("match", IF res = 0 THEN "Err" ELSE "Picked", res)
    /\ LET options == Options(matches)
           selected == IF res = 0 THEN MatchDefault ELSE options[res]
           found == Find(matches, selected)
       IN  IF selected = IgnoreThisLine \/ found = 0
           THEN Ignored
           ELSE MarkSelected(matches[found][1])
    /\ UNCHANGED <<uncleared_lines, csv_records, loaded_lines>>

\* an iteration that computes the blocks anew from the buffer
HandleRecord_Recompute ==
    /\ InLoop
    /\ Len(Record) >= 3
    /\ LET matches == Matches(Uncleared(ledger_lines), Record)
       IN  IF matches = <<>>
           THEN \E res \in {"Ignore", "Add Stock Expense Item", "Exit", "Err"},
                   write_ok \in BOOLEAN :
                    NoMatch(res, write_ok)
           ELSE \E res \in 0..(Len(matches) + 1) : Match(matches, res)

\* one iteration of the loop over csv_records, for a record with its three
\* fields: compute the matches, prompt, act
HandleRecord ==
    /\ InLoop
    /\ Len(Record) >= 3
    /\ LET matches == Matches(uncleared_lines, Record)
       IN  IF matches = <<>>
           THEN \E res \in {"Ignore", "Add Stock Expense Item", "Exit", "Err"},
                   write_ok \in BOOLEAN :
                    NoMatch(res, write_ok)
           ELSE \E res \in 0..(Len(matches) + 1) : Match(matches, res)

\* after the last record: write the buffer and return
Finish(write_ok) ==
    /\ pc = "loop"
    /\ row = Len(csv_records)
    /\ WriteOutput(write_ok)
    /\ Return(IF write_ok THEN "Ok" ELSE "Err")
    /\ UNCHANGED <<ledger_lines, uncleared_lines, csv_records, row,
                   loaded_lines, hist>>

FinishOk == Finish(TRUE)
FinishWriteErr == Finish(FALSE)

Next ==
    \/ Main
    \/ ReadLedgerOk
    \/ ReadLedgerErr
    \/ ReadCsvOk
    \/ ReadCsvErr
    \/ RecordPanic
    \/ HandleRecord
    \/ FinishOk
    \/ FinishWriteErr

Spec == Init /\ [][Next]_vars

\* ============================================================ the claims
\* the loop is about to handle a record with its three fields
Handling == InLoop /\ Len(Record) >= 3

\* the candidates of the record at hand
CurMatches == Matches(uncleared_lines, Record)

\* the 0-based number of the ledger line candidate k's text starts with
CandidateStart(k) == BlockStarts(loaded_lines)[CurMatches[k][1] + 1]

\* this step shows a prompt, which returns res (and the option at pick)
PromptStep(prompt, res, pick) ==
    /\ Handling
    /\ prompts' = prompts + 1
    /\ last' = Answer(prompt, res, pick)

\* this step answers the match prompt by picking candidate k
SelectStep(k) ==
    /\ Handling
    /\ k \in 1..Len(CurMatches)
    /\ PromptStep("match", "Picked", k)

\* C1: when the user selects a candidate, the line that receives the "* "
\* prefix is the first line of that candidate's text, and no other line
\* changes.
C1_SelectMarksCandidateLine ==
    [][\A k \in 1..MaxLedgerLen :
          SelectStep(k) =>
             ledger_lines' =
                [ledger_lines EXCEPT ![CandidateStart(k) + 1] =
                    <<"*", " ">> \o trim_start(@)]]_vars

\* C2: every line of the ledger is its original text or "* " followed by
\* its original text without leading whitespace, and never carries two
\* clearance markers.
C2_MarkedExactlyOnce ==
    \A i \in 1..Len(loaded_lines) :
        /\ \/ ledger_lines[i] = loaded_lines[i]
           \/ ledger_lines[i] = <<"*", " ">> \o trim_start(loaded_lines[i])
        /\ ~starts_with(ledger_lines[i], <<"*", " ", "*">>)

\* candidate k's three-line block covers the ledger line at position p
Covers(k, p) == p \in (CandidateStart(k) + 1)..(CandidateStart(k) + 3)

\* C3: if a ledger line that is not cleared contains the record's date,
\* description and amount, the candidates are non-empty and one of them
\* includes that line.
C3_MatcherComplete ==
    Handling =>
        \A p \in 1..Len(loaded_lines) :
            (/\ ~starts_with(ledger_lines[p], Star)
             /\ IsMatch(ledger_lines[p], Record))
            => \E k \in 1..Len(CurMatches) : Covers(k, p)

\* the ledger is made of transactions, a header and two postings each, and
\* blank lines
TransactionLedger(ll) ==
    /\ \E i \in 1..Len(ll) : ll[i] = Header
    /\ \A i \in 1..Len(ll) :
          \/ ll[i] = Blank
          \/ /\ ll[i] = Header
             /\ i + 2 <= Len(ll)
             /\ ll[i + 1] = Posting
             /\ ll[i + 2] = Posting
          \/ /\ ll[i] = Posting
             /\ \/ i > 1 /\ ll[i - 1] = Header
                \/ i > 2 /\ ll[i - 2] = Header

\* every record of the CSV matches a transaction of the ledger
AllRowsMatch ==
    /\ csv_records # <<>>
    /\ \A i \in 1..Len(csv_records) :
          /\ Len(csv_records[i]) >= 3
          /\ Matches(uncleared_lines, csv_records[i]) # <<>>

\* C4: a run without prompt answers over a ledger of transactions and a CSV
\* whose rows all match returns Ok with the matched header cleared in the
\* output.
C4_TestClearsHeaders ==
    (/\ pc = "exited"
     /\ writes = 1
     /\ TransactionLedger(loaded_lines)
     /\ AllRowsMatch
     /\ ~answered)
    => /\ result = "Ok"
       /\ contains(output, <<"*", " ">> \o Header)

\* the text, lower-cased and without "$", contains the record's date,
\* description and amount
ContainsFields(text, record) ==
    LET n == remove_char(to_lowercase(text), "$")
    IN  /\ contains(n, trim(record[1]))
        /\ contains(n, to_lowercase(trim(record[2])))
        /\ contains(n, remove_char(trim(record[3]), "$"))

\* C5 as stated: the ledger line a candidate's index names itself contains
\* the record's date, description and amount.
C5_IndexedLineContainsFields ==
    Handling =>
        \A k \in 1..Len(CurMatches) :
            ContainsFields(ledger_lines[CurMatches[k][1] + 1], Record)

\* C5 amended: the text of every candidate is a block of three consecutive
\* lines of the ledger as loaded, the first of them not starting with "*",
\* and the block contains the record's date, description and amount.
C5_CandidateBlockContainsFields ==
    Handling =>
        \A k \in 1..Len(CurMatches) :
            /\ ContainsFields(CurMatches[k][2], Record)
            /\ \E s \in 1..(Len(loaded_lines) - 2) :
                  /\ CurMatches[k][2] = join(SubSeq(loaded_lines, s, s + 2), NL)
                  /\ ~starts_with(loaded_lines[s], Star)

\* C5 witness: a candidate is offered whose indexed line lacks a field
C5_Witness ==
    /\ Handling
    /\ CurMatches # <<>>
    /\ ~ContainsFields(ledger_lines[CurMatches[1][1] + 1], Record)

\* a line marked n times
RECURSIVE MarkedTimes(_, _)
MarkedTimes(n, line) ==
    IF n = 0 THEN line ELSE MarkCleared(MarkedTimes(n - 1, line))

\* C6: on success the output is the newline-join of the whole buffer: every
\* line of the ledger as loaded, verbatim or in cleared form, in its place,
\* then the appended entries in the order of their records.
C6_OutputIsFullBuffer ==
    result = "Ok" =>
        /\ writes = 1
        /\ output = join(ledger_lines, NL)
        /\ Len(ledger_lines) = Len(loaded_lines) + Len(added)
        /\ \A i \in 1..Len(loaded_lines) :
              \E n \in 0..prompts :
                  ledger_lines[i] = MarkedTimes(n, loaded_lines[i])
        /\ \A j \in 1..Len(added) :
              ledger_lines[Len(loaded_lines) + j] =
                  NewEntry(csv_records[added[j]])

\* C6 witness: a successful run that cleared a line and appended an entry
C6_Witness ==
    /\ result = "Ok"
    /\ added # <<>>
    /\ \E i \in 1..Len(loaded_lines) : ledger_lines[i] # loaded_lines[i]

\* C7 as stated: once "Exit" is chosen the run is over, it returned Ok, the
\* output is the buffer and no later record was prompted for.
C7_ExitReturnsOk ==
    last.res = "Exit" =>
        /\ pc = "exited"
        /\ prompts = row + 1
        /\ result = "Ok"
        /\ writes = 1
        /\ output = join(ledger_lines, NL)

\* C7 amended: once "Exit" is chosen the run is over and no later record
\* was prompted for; either the write succeeded, the output is the buffer
\* and the result is Ok, or the write failed, nothing is written and the
\* result is the error.
C7_ExitWritesAndStops ==
    last.res = "Exit" =>
        /\ pc = "exited"
        /\ prompts = row + 1
        /\ \/ /\ result = "Ok"
              /\ writes = 1
              /\ output = join(ledger_lines, NL)
           \/ /\ result = "Err"
              /\ writes = 0
              /\ output = <<>>

\* C7 witness: "Exit" chosen with a record left, and the buffer written
C7_Witness ==
    /\ last.res = "Exit"
    /\ result = "Ok"
    /\ row + 1 < Len(csv_records)
    /\ output = join(ledger_lines, NL)

\* C8: no record with fewer than three fields reaches the loop, and the run
\* never aborts.
C8_MalformedRowsDiscarded ==
    /\ \A i \in 1..Len(csv_records) : Len(csv_records[i]) >= 3
    /\ result # "panic"

ends_with(s, p) ==
    Len(s) >= Len(p) /\ SubSeq(s, Len(s) - Len(p) + 1, Len(s)) = p

\* C9: "Add" appends one element, an entry of a header "<date> <description>"
\* and two postings of +amount and -amount, and leaves the elements before
\* it as they were.
C9_AddAppendsOneEntry ==
    [][PromptStep("nomatch", "Add Stock Expense Item", 0) =>
         /\ Len(ledger_lines') = Len(ledger_lines) + 1
         /\ SubSeq(ledger_lines', 1, Len(ledger_lines)) = ledger_lines
         /\ LET entry == lines(ledger_lines'[Len(ledger_lines')])
            IN  /\ Len(entry) = 3
                /\ entry[1] = date(Record) \o <<" ">> \o description(Record)
                /\ IsWhitespace(Head(entry[2]))
                /\ ends_with(entry[2], <<" ", "$">> \o amount(Record))
                /\ IsWhitespace(Head(entry[3]))
                /\ ends_with(entry[3], <<" ", "-", "$">> \o amount(Record))
    ]_vars

\* C9 witness: an entry was appended to a ledger of three lines or more
C9_Witness ==
    /\ last.res = "Add Stock Expense Item"
    /\ Len(loaded_lines) >= 3
    /\ Len(ledger_lines) = Len(loaded_lines) + 1

\* C10: a prompt that cannot be read acts as Ignore: the buffer and the
\* output are unchanged, the run neither aborts nor returns, and the loop
\* goes on with the next record.
C10_PromptFailureIgnores ==
    [][(\E p \in {"nomatch", "match"} : PromptStep(p, "Err", 0)) =>
         /\ ledger_lines' = ledger_lines
         /\ row' = row + 1
         /\ pc' = "loop"
         /\ result' = "none"
         /\ exit_code' = -1
         /\ UNCHANGED <<output, writes, uncleared_lines, csv_records>>
    ]_vars

\* C10 witness: two prompts in a row failed and the loop is still running
C10_Witness ==
    /\ last.res = "Err"
    /\ prompts = 2
    /\ ~answered
    /\ pc = "loop"

\* the upper-case form of a field
to_uppercase(s) ==
    [i \in 1..Len(s) |->
        CASE s[i] = "g" -> "G" [] s[i] = "r" -> "R" [] OTHER -> s[i]]

\* a field with its letter case changed, or with a "$" inserted or removed
FieldVariants(f) ==
    {to_lowercase(f), to_uppercase(f), <<"$">> \o f, remove_char(f, "$")}

\* the records that differ from the record in the case or the "$" of one of
\* the three fields
RecordVariants(record) ==
    UNION {{[record EXCEPT ![i] = f] : f \in FieldVariants(record[i])} :
           i \in 1..3}

\* C11: changing the letter case of, or inserting or removing "$" in, the
\* date, the description or the amount of a record does not change its
\* candidates.
C11_NormalizationInvariant ==
    Handling =>
        \A v \in RecordVariants(Record) :
            Matches(uncleared_lines, v) = CurMatches

\* C12: the element count of the buffer never decreases in a step and is
\* never below the count at load time.
C12_CountNeverShrinks ==
    [][/\ Len(ledger_lines') >= Len(ledger_lines)
       /\ Len(ledger_lines') >= Len(loaded_lines')]_vars

\* C12 witness: two entries were appended to a ledger of three lines or more
C12_Witness ==
    /\ Len(loaded_lines) >= 3
    /\ Len(ledger_lines) = Len(loaded_lines) + 2

\* the positions at which the buffer differs after the step
Changed == {i \in 1..Len(ledger_lines) : ledger_lines'[i] # ledger_lines[i]}

\* C14: "Ignore" and "Ignore this line" leave the buffer unchanged; selecting
\* a candidate changes exactly one element and keeps the others and the
\* count.
C14_IgnoreAndSelectFrame ==
    [][/\ PromptStep("nomatch", "Ignore", 0) => ledger_lines' = ledger_lines
       /\ (Handling /\ PromptStep("match", "Picked", Len(CurMatches) + 1))
             => ledger_lines' = ledger_lines
       /\ \A k \in 1..MaxLedgerLen :
             SelectStep(k) =>
                /\ Len(ledger_lines') = Len(ledger_lines)
                /\ Cardinality(Changed) = 1
    ]_vars

\* C14 witness: the first prompt selected a candidate and one line differs
\* from the ledger as loaded
C14_Witness ==
    /\ prompts = 1
    /\ last = Answer("match", "Picked", 1)
    /\ Cardinality({i \in 1..Len(loaded_lines) :
                        ledger_lines[i] # loaded_lines[i]}) = 1

\* C15: no candidate offered for the record at hand is, or contains, a
\* ledger line that now starts with "*".
C15_NoClearedCandidate ==
    Handling =>
        \A k \in 1..Len(CurMatches) :
            /\ ~starts_with(ledger_lines[CurMatches[k][1] + 1], Star)
            /\ \A p \in 1..Len(loaded_lines) :
                  Covers(k, p) => ~starts_with(ledger_lines[p], Star)

\* C16: the index of every candidate is a position of the buffer, and the
\* only abort of a run is the one of a record with fewer than three fields.
C16_SelectedIndexInBounds ==
    /\ Handling =>
          \A k \in 1..Len(CurMatches) :
              CurMatches[k][1] + 1 \in 1..Len(ledger_lines)
    /\ result = "panic" =>
          /\ row < Len(csv_records)
          /\ Len(csv_records[row + 1]) < 3

\* C16 witness: the candidate of the last block of a ledger of four lines
\* or more was selected and the run went on to its end
C16_Witness ==
    /\ result = "Ok"
    /\ Len(loaded_lines) >= 4
    /\ ledger_lines[Len(loaded_lines) - 2] # loaded_lines[Len(loaded_lines) - 2]

\* C13: the exit code is 1 exactly when no ledger path is given or a file
\* read or write fails, and 0 in every other run; a failed read of the
\* ledger or of the CSV returns before any prompt and writes nothing.
C13_ExitCodes ==
    [][/\ pc' = "exited" =>
             IF result' \in {"none", "Err"}
             THEN exit_code' = 1
             ELSE exit_code' = 0
       /\ (pc \in {"read_ledger", "read_csv"} /\ result' = "Err") =>
             /\ prompts' = 0
             /\ writes' = 0
             /\ output' = <<>>
    ]_vars

\* C17: the prompt shown for a record and its candidates depend on the
\* ledger as loaded and on the record only, not on what the buffer has
\* become.
C17_CandidatesFromLoadedLedger ==
    [][(Handling /\ prompts' = prompts + 1) =>
          LET m == Matches(Uncleared(loaded_lines), Record)
          IN  /\ last'.prompt = "nomatch" <=> m = <<>>
              /\ last'.prompt = "match" <=> m # <<>>
              /\ last'.pick <= Len(m) + 1
              /\ CurMatches = m
              /\ uncleared_lines' = uncleared_lines
    ]_vars

\* C17 witness: "Add" was chosen for a record and again for the identical
\* record after it, both at the no-match prompt
C17_Witness ==
    /\ Len(csv_records) = 2
    /\ csv_records[1] = csv_records[2]
    /\ added = <<1, 2>>
    /\ last = Answer("nomatch", "Add Stock Expense Item", 0)

\* C18: the loop shows one prompt per record, in order, and a run given a
\* ledger and free of I/O failure ends with the output written once, after
\* the last record or after "Exit".
C18_OnePromptPerRow ==
    /\ prompts <= Len(csv_records)
    /\ pc = "loop" => prompts = row
    /\ (pc = "exited" /\ result \notin {"none", "Err"}) =>
          /\ result = "Ok"
          /\ writes = 1
          /\ \/ prompts = Len(csv_records) /\ row = Len(csv_records)
             \/ last.res = "Exit" /\ prompts = row + 1

====
